---- MODULE Spec2Model ----
(***************************************************************************)
(* Gemini API proxy (src/worker.js): the ApiKeyPool with its failed set,   *)
(* cooling map and cached selectable view, and the request handlers        *)
(* (handleRequest, handleModels, handleEmbeddings) that drive it.  Each    *)
(* action is one synchronous segment of a handler, from one await to the   *)
(* next; requests interleave only at their awaits.  Times are in           *)
(* milliseconds, as Date.now() gives them.                                 *)
(***************************************************************************)
EXTENDS Integers, Sequences, FiniteSets, TLC

\* ---------------------------------------------------------------- bounds
\* Keys configured; requests the sequential specification serves one after
\* the other, and clock advances in it; requests in flight at once in the
\* concurrent specification, requests it serves, and clock advances in it;
\* longest run of round-robin selections followed.
MaxKeys == 2
MaxStarts == 3
MaxTicks == 1
NumReqs == 2
MaxConcStarts == 2
MaxConcTicks == 1
MaxRun == 3
MaxMessages == 3
MaxFrames == 3
MaxAdvances == 27
MAX_BUFFER_SIZE == 16

\* ------------------------------------------------------ program constants
MS_PER_MINUTE == 60000
CLEANUP_INTERVAL_MS == 3600000
CHAT_RETRIES == 3
AUX_RETRIES == 2
COOL_NETWORK_MIN == 5
COOL_GATEWAY_MIN == 5
COOL_SERVER_MIN == 10
COOL_UNAVAILABLE_MIN == 1440
COOL_RATELIMIT_MIN == 1440

\* ------------------------------------------------------------ JS values
\* NaN is the only non-finite number the pool can hold (Date.now() + NaN).
NaN == -1
\* undefined: what an out-of-range array read gives.
Undefined == 0
\* null (no statistics cached).
NullStats == [totalKeys |-> -1, availableKeys |-> -1, failedKeys |-> -1, coolingKeys |-> -1]

IsNaN(x) == x = NaN
\* a >= b and a < b on JS numbers: both are false when either side is NaN.
Ge(a, b) == ~IsNaN(a) /\ ~IsNaN(b) /\ a >= b
Lt(a, b) == ~IsNaN(a) /\ ~IsNaN(b) /\ a < b
\* a + b and Math.max(a, b) on JS numbers.
Plus(a, b) == IF IsNaN(a) \/ IsNaN(b) THEN NaN ELSE a + b
MathMax(a, b) == IF IsNaN(a) \/ IsNaN(b) THEN NaN ELSE IF a >= b THEN a ELSE b
Times(a, b) == IF IsNaN(a) \/ IsNaN(b) THEN NaN ELSE a * b
MathMin(a, b) == IF a <= b THEN a ELSE b
\* arr[i] with a 0-based index i.
At(arr, i) == IF i + 1 \in DOMAIN arr THEN arr[i + 1] ELSE Undefined

VARIABLES keys, strategy, pool, now, ticks, started, reqs, lastSel, rr, lastOut,
          translation, stream

vars == <<keys, strategy, pool, now, ticks, started, reqs, lastSel, rr, lastOut,
          translation, stream>>

Strategies == {"round-robin", "random", "first"}
Reqs == DOMAIN reqs
Concurrent == Cardinality(Reqs) > 1
StartLimit == IF Concurrent THEN MaxConcStarts ELSE MaxStarts
TickLimit == IF Concurrent THEN MaxConcTicks ELSE MaxTicks

\* ------------------------------------------------------------ ApiKeyPool
\* The Map coolingKeys: a sequence of entries in insertion order.
MapHas(m, k) == \E i \in DOMAIN m : m[i].key = k
MapGet(m, k) == (CHOOSE e \in {m[i] : i \in DOMAIN m} : e.key = k).until
MapDelete(m, k) == SelectSeq(m, LAMBDA e : e.key # k)
MapSet(m, k, v) ==
  IF MapHas(m, k)
    THEN [i \in DOMAIN m |-> IF m[i].key = k THEN [key |-> k, until |-> v] ELSE m[i]]
    ELSE Append(m, [key |-> k, until |-> v])
MapKeys(m) == {m[i].key : i \in DOMAIN m}

NewPool ==
  [currentIndex |-> 0, failedKeys |-> {}, coolingKeys |-> <<>>, lastCleanup |-> 0,
   hasCoolingKeys |-> FALSE, availableKeysCache |-> keys, cacheValid |-> TRUE,
   statsCache |-> NullStats, statsCacheTime |-> 0]

\* updateAvailableKeysCache filtering on the cooling map alone.
updateAvailableKeysCacheKeepsFailed(p) ==
  [p EXCEPT !.availableKeysCache = SelectSeq(keys, LAMBDA k : ~MapHas(p.coolingKeys, k)),
            !.cacheValid = TRUE]

updateAvailableKeysCache(p) ==
  [p EXCEPT !.availableKeysCache =
              SelectSeq(keys, LAMBDA k : k \notin p.failedKeys /\ ~MapHas(p.coolingKeys, k)),
            !.cacheValid = TRUE]

invalidateCache(p) == [p EXCEPT !.cacheValid = FALSE, !.statsCache = NullStats]

\* markKeyFailed writing a failed set that holds the key alone.
markKeyFailedOverwrites(p, key) ==
  invalidateCache([p EXCEPT !.failedKeys = {key},
                            !.coolingKeys = MapDelete(@, key)])

markKeyFailed(p, key) ==
  invalidateCache([p EXCEPT !.failedKeys = @ \cup {key},
                            !.coolingKeys = MapDelete(@, key)])

\* markKeyCooling adding the minutes to the expiry of an existing entry.
markKeyCoolingStacks(p, key, minutes, t) ==
  invalidateCache([p EXCEPT !.coolingKeys =
                              MapSet(@, key, Plus(IF MapHas(@, key) THEN MapGet(@, key) ELSE t,
                                                  Times(minutes, MS_PER_MINUTE))),
                            !.hasCoolingKeys = TRUE])

\* markKeyCooling without the call of invalidateCache.
markKeyCoolingStale(p, key, minutes, t) ==
  [p EXCEPT !.coolingKeys = MapSet(@, key, Plus(t, Times(minutes, MS_PER_MINUTE))),
            !.hasCoolingKeys = TRUE]

markKeyCooling(p, key, minutes, t) ==
  invalidateCache([p EXCEPT !.coolingKeys = MapSet(@, key, Plus(t, Times(minutes, MS_PER_MINUTE))),
                            !.hasCoolingKeys = TRUE])

\* cleanupExpiredKeys deleting every entry, expired or not.
cleanupExpiredKeysAll(p, t) ==
  IF ~p.hasCoolingKeys THEN p
  ELSE LET kept == SelectSeq(p.coolingKeys, LAMBDA e : FALSE)
           q == [p EXCEPT !.coolingKeys = kept, !.hasCoolingKeys = Len(kept) > 0]
       IN IF Len(kept) < Len(p.coolingKeys) THEN invalidateCache(q) ELSE q

\* cleanupExpiredKeys deleting nothing.
cleanupExpiredKeysNone(p, t) == p

cleanupExpiredKeys(p, t) ==
  IF ~p.hasCoolingKeys THEN p
  ELSE LET kept == SelectSeq(p.coolingKeys, LAMBDA e : ~Ge(t, e.until))
           q == [p EXCEPT !.coolingKeys = kept, !.hasCoolingKeys = Len(kept) > 0]
       IN IF Len(kept) < Len(p.coolingKeys) THEN invalidateCache(q) ELSE q

\* resetAllKeys without failedKeys.clear().
resetAllKeysKeepsFailed(p) ==
  invalidateCache([p EXCEPT !.coolingKeys = <<>>, !.hasCoolingKeys = FALSE])

resetAllKeys(p) ==
  invalidateCache([p EXCEPT !.failedKeys = {}, !.coolingKeys = <<>>,
                            !.hasCoolingKeys = FALSE])

\* entries.sort(([,a],[,b]) => a - b)[0][0]: the keys the sort may put first.
\* A comparator result of NaN counts as +0.  Without NaN expiries the sort is
\* a stable ascending sort; with NaN expiries and all other expiries equal
\* every pair compares equal and the order is kept; otherwise the comparator
\* is inconsistent and the order is implementation-defined.
SortFirst(m) ==
  LET E == DOMAIN m
      nums == {m[i].until : i \in {j \in E : ~IsNaN(m[j].until)}}
      hasNaN == \E i \in E : IsNaN(m[i].until)
      least == CHOOSE v \in nums : \A w \in nums : v <= w
      firstLeast == CHOOSE i \in E : /\ m[i].until = least
                                     /\ \A j \in E : m[j].until = least => i <= j
  IN IF ~hasNaN THEN {m[firstLeast].key}
     ELSE IF Cardinality(nums) <= 1 THEN {m[1].key}
     ELSE MapKeys(m)

Null == -2

\* The values getNextCoolingKey may return (one, unless the sort order is
\* implementation-defined).
getNextCoolingKey(p) ==
  IF Len(p.coolingKeys) = 0 THEN {Null} ELSE SortFirst(p.coolingKeys)

\* roundRobin reading at the cursor without reducing it modulo the length.
roundRobinNoWrap(p, availableKeys) ==
  [key |-> At(availableKeys, p.currentIndex),
   pool |-> [p EXCEPT !.currentIndex = (p.currentIndex + 1) % Len(availableKeys)]]

\* roundRobin that leaves the cursor where it is.
roundRobinStuck(p, availableKeys) ==
  [key |-> At(availableKeys, p.currentIndex % Len(availableKeys)), pool |-> p]

roundRobin(p, availableKeys) ==
  [key |-> At(availableKeys, p.currentIndex % Len(availableKeys)),
   pool |-> [p EXCEPT !.currentIndex = (p.currentIndex + 1) % Len(availableKeys)]]

\* Math.floor(Math.random() * length), Math.random() being u / MaxKeys for
\* some u in RandomDraws: the values random may return.
RandomDraws == 0..(MaxKeys - 1)
random(availableKeys) ==
  {At(availableKeys, (u * Len(availableKeys)) \div MaxKeys) : u \in RandomDraws}

\* The result of a selection: the new pool, the key, the branch that chose
\* it and the selectable view the choice was made from.
Sel(p, k, path, view) == [pool |-> p, key |-> k, path |-> path, view |-> view]

\* handleEmergencyCase taking the cooling key it returns out of the map.
handleEmergencyCaseTakes(p, t) ==
  LET c == IF p.hasCoolingKeys THEN cleanupExpiredKeys(p, t) ELSE p
      q == IF p.hasCoolingKeys /\ ~c.cacheValid THEN updateAvailableKeysCache(c) ELSE c
  IN IF Len(q.availableKeysCache) = 0
       THEN {IF emergencyKey # Null
               THEN Sel([q EXCEPT !.coolingKeys = MapDelete(@, emergencyKey)],
                        emergencyKey, "cooling", q.availableKeysCache)
               ELSE Sel(resetAllKeys(q), At(keys, 0), "reset", q.availableKeysCache)
             : emergencyKey \in getNextCoolingKey(q)}
       ELSE {Sel(q, At(q.availableKeysCache, 0), "recovered", q.availableKeysCache)}

\* The selecting operations below give the set of their possible results.
handleEmergencyCase(p, t) ==
  LET c == IF p.hasCoolingKeys THEN cleanupExpiredKeys(p, t) ELSE p
      q == IF p.hasCoolingKeys /\ ~c.cacheValid THEN updateAvailableKeysCache(c) ELSE c
  IN IF Len(q.availableKeysCache) = 0
       THEN {IF emergencyKey # Null
               THEN Sel(q, emergencyKey, "cooling", q.availableKeysCache)
               ELSE Sel(resetAllKeys(q), At(keys, 0), "reset", q.availableKeysCache)
             : emergencyKey \in getNextCoolingKey(q)}
       ELSE {Sel(q, At(q.availableKeysCache, 0), "recovered", q.availableKeysCache)}

getAvailableKey(p, t) ==
  LET q == IF ~p.cacheValid THEN updateAvailableKeysCache(p) ELSE p
  IN IF Len(q.availableKeysCache) = 0 THEN handleEmergencyCase(q, t)
     ELSE IF strategy = "round-robin"
       THEN LET r == roundRobin(q, q.availableKeysCache)
            IN {Sel(r.pool, r.key, "strategy", q.availableKeysCache)}
     ELSE IF strategy = "random"
       THEN {Sel(q, k, "strategy", q.availableKeysCache) : k \in random(q.availableKeysCache)}
     ELSE {Sel(q, At(q.availableKeysCache, 0), "strategy", q.availableKeysCache)}

getNextKey(p, t) ==
  IF ~p.hasCoolingKeys THEN getAvailableKey(p, t)
  ELSE IF t - p.lastCleanup > CLEANUP_INTERVAL_MS
    THEN getAvailableKey([cleanupExpiredKeys(p, t) EXCEPT !.lastCleanup = t], t)
    ELSE getAvailableKey(p, t)

STATS_CACHE_MS == 5000

getStats(p, t) ==
  IF p.statsCache # NullStats /\ t - p.statsCacheTime < STATS_CACHE_MS
    THEN [pool |-> p, stats |-> p.statsCache]
  ELSE LET activeCooling == Cardinality({i \in DOMAIN p.coolingKeys : Lt(t, p.coolingKeys[i].until)})
           s == [totalKeys |-> Len(keys),
                 availableKeys |-> Len(keys) - Cardinality(p.failedKeys) - activeCooling,
                 failedKeys |-> Cardinality(p.failedKeys),
                 coolingKeys |-> activeCooling]
       IN [pool |-> [p EXCEPT !.statsCache = s, !.statsCacheTime = t], stats |-> s]

\* ------------------------------------------------- upstream responses
\* Retry-After header values a 429 may carry: none (headers.get gives null),
\* delay-seconds, or an HTTP-date.
RetryAfterValues == {"", "120", "172800", "Wed, 21 Oct 2015 07:28:00 GMT"}

\* parseInt on those header values.
parseInt(s) ==
  CASE s = "120" -> 120
    [] s = "172800" -> 172800
    [] OTHER -> NaN

\* x / 60; the numeric header values above are whole minutes.
Div60(x) == IF IsNaN(x) THEN NaN ELSE x \div 60

Statuses == {200, 400, 401, 403, 404, 429, 500, 502, 503, 504}

\* What one upstream call can end with: an HTTP response (status, the
\* Retry-After header, whether its body parses) or a network exception
\* (status 0).
NETWORK_ERROR == 0
\* transformRequest rejecting before the upstream call is issued.
TRANSLATE_ERROR == -3
Outcomes ==
  {[status |-> st, retryAfter |-> "", bodyOk |-> TRUE] : st \in Statuses \cup {NETWORK_ERROR}}
  \cup {[status |-> 429, retryAfter |-> h, bodyOk |-> TRUE] : h \in RetryAfterValues}
  \cup {[status |-> 200, retryAfter |-> "", bodyOk |-> FALSE]}

\* handleApiError treating a 404 as a gateway error.
handleApiErrorRetries404(p, apiKey, status, retryAfter, t) ==
  IF status = 401 \/ status = 403
    THEN [pool |-> markKeyFailed(p, apiKey), type |-> "permanent"]
  ELSE IF status = 429
    THEN LET coolMinutes == IF retryAfter # ""
                              THEN MathMax(Div60(parseInt(retryAfter)), COOL_RATELIMIT_MIN)
                              ELSE COOL_RATELIMIT_MIN
         IN [pool |-> markKeyCooling(p, apiKey, coolMinutes, t), type |-> "temporary"]
  ELSE IF status = 503
    THEN [pool |-> markKeyCooling(p, apiKey, COOL_UNAVAILABLE_MIN, t), type |-> "temporary"]
  ELSE IF status = 502 \/ status = 504 \/ status = 404
    THEN [pool |-> markKeyCooling(p, apiKey, COOL_GATEWAY_MIN, t), type |-> "temporary"]
  ELSE IF status >= 500
    THEN [pool |-> markKeyCooling(p, apiKey, COOL_SERVER_MIN, t), type |-> "temporary"]
  ELSE [pool |-> p, type |-> "client_error"]

\* handleApiError cooling a 503 as it cools a gateway error.
handleApiErrorShort503(p, apiKey, status, retryAfter, t) ==
  IF status = 401 \/ status = 403
    THEN [pool |-> markKeyFailed(p, apiKey), type |-> "permanent"]
  ELSE IF status = 429
    THEN LET coolMinutes == IF retryAfter # ""
                              THEN MathMax(Div60(parseInt(retryAfter)), COOL_RATELIMIT_MIN)
                              ELSE COOL_RATELIMIT_MIN
         IN [pool |-> markKeyCooling(p, apiKey, coolMinutes, t), type |-> "temporary"]
  ELSE IF status = 502 \/ status = 503 \/ status = 504
    THEN [pool |-> markKeyCooling(p, apiKey, COOL_GATEWAY_MIN, t), type |-> "temporary"]
  ELSE IF status >= 500
    THEN [pool |-> markKeyCooling(p, apiKey, COOL_SERVER_MIN, t), type |-> "temporary"]
  ELSE [pool |-> p, type |-> "client_error"]

handleApiError(p, apiKey, status, retryAfter, t) ==
  IF status = 401 \/ status = 403
    THEN [pool |-> markKeyFailed(p, apiKey), type |-> "permanent"]
  ELSE IF status = 429
    THEN LET coolMinutes == IF retryAfter # ""
                              THEN MathMax(Div60(parseInt(retryAfter)), COOL_RATELIMIT_MIN)
                              ELSE COOL_RATELIMIT_MIN
         IN [pool |-> markKeyCooling(p, apiKey, coolMinutes, t), type |-> "temporary"]
  ELSE IF status = 503
    THEN [pool |-> markKeyCooling(p, apiKey, COOL_UNAVAILABLE_MIN, t), type |-> "temporary"]
  ELSE IF status = 502 \/ status = 504
    THEN [pool |-> markKeyCooling(p, apiKey, COOL_GATEWAY_MIN, t), type |-> "temporary"]
  ELSE IF status >= 500
    THEN [pool |-> markKeyCooling(p, apiKey, COOL_SERVER_MIN, t), type |-> "temporary"]
  ELSE [pool |-> p, type |-> "client_error"]

\* ------------------------------------------------------ error responses
ERROR_TEMPLATES(status, msg) ==
  CASE status = 400 -> [message |-> msg, type |-> "invalid_request_error", code |-> 400]
    [] status = 401 -> [message |-> "Missing API key", type |-> "invalid_request_error", code |-> 401]
    [] status = 403 -> [message |-> "Forbidden", type |-> "invalid_request_error", code |-> 403]
    [] status = 404 -> [message |-> "Not Found", type |-> "invalid_request_error", code |-> 404]
    [] status = 405 -> [message |-> IF msg = "" THEN "Method not allowed" ELSE msg,
                        type |-> "invalid_request_error", code |-> 405]
    [] status = 429 -> [message |-> "Too many requests", type |-> "rate_limit_error", code |-> 429]
    [] OTHER -> [message |-> msg, type |-> "server_error", code |-> 500]

createErrorResponse(status, message) ==
  [status |-> status, body |-> ERROR_TEMPLATES(status, message)]

NoBody == [message |-> "", type |-> "", code |-> 0]
NoResponse == [status |-> 0, body |-> NoBody]
OkResponse == [status |-> 200, body |-> NoBody]

\* ------------------------------------------------------- authentication
\* The names of the headers in BASE_HEADERS and COMMON_HEADERS.JSON.
BASE_HEADERS ==
  {"Access-Control-Allow-Origin", "Access-Control-Allow-Methods",
   "Access-Control-Allow-Headers", "Cache-Control", "Connection"}
COMMON_HEADERS_JSON == BASE_HEADERS \cup {"Content-Type"}

\* VALID_AUTH_TOKENS of the deployment.
validTokens == {"token-a"}

\* An Authorization header as the words between its spaces; <<>> when the
\* request has none.
Authorized == <<"Bearer", "token-a">>
AuthHeaders == {<<>>, <<"Bearer">>, <<"token-a">>, <<"Bearer", "token-x">>, Authorized}
Methods == {"OPTIONS", "GET", "POST"}

\* request.headers.get("Authorization")?.split(" ")[1]; "" stands for
\* undefined as well, both are falsy.
userToken(h) == IF Len(h) >= 2 THEN h[2] ELSE ""

validateToken(token) == token \in validTokens

\* fetch, from the OPTIONS check to the token checks, without the
\* validateToken check.
fetchAuthAnyToken(method, h) ==
  IF method = "OPTIONS"
    THEN [pass |-> FALSE, resp |-> OkResponse, headers |-> BASE_HEADERS]
  ELSE IF userToken(h) = ""
    THEN [pass |-> FALSE, resp |-> createErrorResponse(401, "Missing authorization token"),
          headers |-> COMMON_HEADERS_JSON]
  ELSE [pass |-> TRUE, resp |-> NoResponse, headers |-> {}]

\* fetch, from the OPTIONS check to the token checks: the response it
\* returns there, or pass when the request goes on to its route.
fetchAuth(method, h) ==
  IF method = "OPTIONS"
    THEN [pass |-> FALSE, resp |-> OkResponse, headers |-> BASE_HEADERS]
  ELSE IF userToken(h) = ""
    THEN [pass |-> FALSE, resp |-> createErrorResponse(401, "Missing authorization token"),
          headers |-> COMMON_HEADERS_JSON]
  ELSE IF ~validateToken(userToken(h))
    THEN [pass |-> FALSE, resp |-> createErrorResponse(403, "Invalid authorization token"),
          headers |-> COMMON_HEADERS_JSON]
  ELSE [pass |-> TRUE, resp |-> NoResponse, headers |-> {}]

\* The method of each kind of request.
MethodOf(kind) == IF kind = "models" THEN "GET" ELSE "POST"

\* ------------------------------------------------------------- requests
Kinds == {"chat", "models", "embeddings"}
NoError == ""

\* A request: where its handler is suspended (pc), the handler's locals
\* (apiKey, attempt, maxRetries, lastError), the response it returned, and
\* its history: upstream calls made, keys tried, whether an upstream call
\* has already answered with success, and how its attempts ended so far
\* (upstream statuses, NETWORK_ERROR, TRANSLATE_ERROR).
IdleReq ==
  [pc |-> "idle", kind |-> "chat", apiKey |-> Undefined, attempt |-> 0, maxRetries |-> 0,
   lastError |-> NoError, resp |-> NoResponse, calls |-> 0, tried |-> {}, okSeen |-> FALSE,
   seen |-> {}]

\* The handler keeping its response and waiting on, instead of returning.
ReturnWaits(rq, resp) == [rq EXCEPT !.resp = resp]

\* The handler returns: its locals go away.
Return(rq, resp) ==
  [rq EXCEPT !.pc = "done", !.apiKey = Undefined, !.attempt = 0, !.maxRetries = 0,
             !.lastError = NoError, !.resp = resp]

\* ---------------------------------------------------------------- history
\* The selection made by the last step, if it made one: the request, the
\* result of getNextKey, the failed set and cooling map it started from, the
\* key whose attempt had just failed in the same request (retryOf; marked
\* tells whether that failure marked the key), and the keys tried before.
NoSel ==
  [req |-> 0, key |-> Undefined, path |-> "", view |-> <<>>, preFailed |-> {},
   preCooling |-> <<>>, preValid |-> TRUE, retryOf |-> Undefined, marked |-> FALSE, tried |-> {}]

SelOf(r, p, s, retryOf, marked, tried) ==
  [req |-> r, key |-> s.key, path |-> s.path, view |-> s.view, preFailed |-> p.failedKeys,
   preCooling |-> p.coolingKeys, preValid |-> p.cacheValid, retryOf |-> retryOf,
   marked |-> marked, tried |-> tried]

\* What the last step handled, if anything: the settling of an upstream
\* call ("response": its key, status, Retry-After header and whether the
\* body parses), a translation failure ("translate") or a request that
\* fails validation ("invalid").
\* For a GET /v1/status ("status"): the health it reported.
\* For a request that arrived in this step: its method and Authorization
\* header, and, when fetch answered it before routing ("auth"), the
\* response and its headers.
NoOut ==
  [req |-> 0, what |-> "", kind |-> "", key |-> Undefined, status |-> NETWORK_ERROR,
   retryAfter |-> "", bodyOk |-> TRUE, health |-> "", method |-> "", auth |-> <<>>,
   answer |-> NoResponse, headers |-> {}]

OutOf(r, what, kind, key, o) ==
  [NoOut EXCEPT !.req = r, !.what = what, !.kind = kind, !.key = key, !.status = o.status,
                !.retryAfter = o.retryAfter, !.bodyOk = o.bodyOk]

\* A request that arrived with method m and Authorization header h.
Arrived(out, m, h) == [out EXCEPT !.method = m, !.auth = h]

\* The current run of round-robin selections over one unchanged view: the
\* view, the keys returned in order, and the cursor at the first of them.
NoRun == [view |-> <<>>, run |-> <<>>, start |-> 0]

RunAfter(old, p, s) ==
  IF strategy = "round-robin" /\ s.path = "strategy"
    THEN IF old.run # <<>> /\ old.view = s.view /\ Len(old.run) < MaxRun
           THEN [old EXCEPT !.run = Append(@, s.key)]
           ELSE [view |-> s.view, run |-> <<s.key>>, start |-> p.currentIndex]
    ELSE NoRun

\* ------------------------------------------------------------- handlers
UpstreamBody == "upstream error body"
NetworkMessage == "fetch failed"
ImageMessage == "Invalid image data"
JsonMessage == "Unexpected end of JSON input"

Budget(kind) == IF kind = "chat" THEN CHAT_RETRIES ELSE AUX_RETRIES

StatusError(kind, type, status) ==
  (CASE kind = "chat" /\ type = "permanent" -> "API key permanently failed: "
     [] kind = "chat" -> "API key temporarily unavailable: "
     [] kind = "models" -> "Models API error: "
     [] OTHER -> "Embeddings API error: ") \o ToString(status)

\* What a handler returns once its for loop has run out of attempts.
Exhausted(rq) ==
  IF rq.kind = "chat"
    THEN createErrorResponse(500, IF rq.lastError # NoError THEN rq.lastError
                                  ELSE "All API keys failed or cooling")
  ELSE IF rq.kind = "models"
    THEN createErrorResponse(500, IF rq.lastError # NoError THEN rq.lastError
                                  ELSE "Failed to fetch models")
  ELSE createErrorResponse(500, IF rq.lastError # NoError THEN rq.lastError
                                ELSE "Embeddings processing failed")

\* One pass through the head of the retry loop with the attempt counter at
\* n: either the budget is used up and the handler returns, or getNextKey is
\* called and the handler suspends: handleRequest at await transformRequest,
\* handleModels and handleEmbeddings at await fetch.
\* The possible results of the step.
Attempt(r, rq, p, run, n, retryOf, marked) ==
  IF n < rq.maxRetries
    THEN {[pool |-> s.pool,
           req |-> [rq EXCEPT !.attempt = n, !.apiKey = s.key,
                              !.pc = IF rq.kind = "chat" THEN "transform" ELSE "fetch",
                              !.calls = IF rq.kind = "chat" THEN @ ELSE @ + 1,
                              !.tried = @ \cup {s.key}],
           sel |-> SelOf(r, p, s, retryOf, marked, rq.tried),
           run |-> RunAfter(run, p, s)] : s \in getNextKey(p, now)}
    ELSE {[pool |-> p, req |-> Return(rq, Exhausted(rq)), sel |-> NoSel, run |-> run]}

\* A step of the handler that selects no key.
Only(p, rq) == {[pool |-> p, req |-> rq, sel |-> NoSel, run |-> rr]}

\* A response, once returned, has left the worker: the request's slot is
\* free again at the next step.
Delivered == [r \in Reqs |-> IF reqs[r].pc = "done" THEN IdleReq ELSE reqs[r]]

Commit(r, a) ==
  /\ pool' = a.pool
  /\ started' = IF reqs[r].pc \in {"idle", "done"} THEN started + 1 ELSE started
  /\ reqs' = [Delivered EXCEPT ![r] = a.req]
  /\ lastSel' = a.sel
  /\ rr' = a.run
  /\ UNCHANGED <<keys, strategy, now, ticks, translation, stream>>

\* Start selecting the first key before the body is validated.
StartSelectsFirst(r, kind, valid, h) ==
  /\ fetchAuth(MethodOf(kind), h).pass
  /\ reqs[r].pc \in {"idle", "done"}
  /\ started < StartLimit
  /\ \A q \in Reqs : q < r => reqs[q].pc \notin {"idle", "done"}
  /\ LET rq == [IdleReq EXCEPT !.kind = kind]
         g == getStats(pool, now)
         rq1 == [rq EXCEPT !.maxRetries = MathMin(Budget(kind), g.stats.totalKeys)]
         first == Attempt(r, rq1, g.pool, rr, 0, Undefined, FALSE)
     IN \E a \in (IF kind = "chat" /\ ~valid
                    THEN {[b EXCEPT !.req = Return(rq, createErrorResponse(500, "messages array is required")),
                                    !.sel = NoSel] : b \in first}
                  ELSE IF kind = "embeddings" /\ ~valid
                    THEN {[b EXCEPT !.req = Return(rq, createErrorResponse(400, "Input is required")),
                                    !.sel = NoSel] : b \in first}
                  ELSE first) :
          Commit(r, a)
  /\ lastOut' = Arrived(IF ~valid /\ kind \in {"chat", "embeddings"}
                          THEN OutOf(r, "invalid", kind, Undefined, NoOut)
                          ELSE NoOut,
                        MethodOf(kind), h)

\* A request with Authorization header h arrives, passes the token checks
\* and its handler runs to its first await (or returns).
\* valid: the body passes validateRequest (chat) or carries input
\* (embeddings).
Start(r, kind, valid, h) ==
  /\ fetchAuth(MethodOf(kind), h).pass
  /\ reqs[r].pc \in {"idle", "done"}
  /\ started < StartLimit
  /\ \A q \in Reqs : q < r => reqs[q].pc \notin {"idle", "done"}
  /\ LET rq == [IdleReq EXCEPT !.kind = kind]
         g == getStats(pool, now)
         rq1 == [rq EXCEPT !.maxRetries = MathMin(Budget(kind), g.stats.totalKeys)]
     IN \E a \in (IF kind = "chat" /\ ~valid
                    THEN Only(pool, Return(rq, createErrorResponse(500, "messages array is required")))
                  ELSE IF kind = "embeddings" /\ ~valid
                    THEN Only(pool, Return(rq, createErrorResponse(400, "Input is required")))
                  ELSE Attempt(r, rq1, g.pool, rr, 0, Undefined, FALSE)) :
          Commit(r, a)
  /\ lastOut' = Arrived(IF ~valid /\ kind \in {"chat", "embeddings"}
                          THEN OutOf(r, "invalid", kind, Undefined, NoOut)
                          ELSE NoOut,
                        MethodOf(kind), h)

\* await transformRequest(req) settles: the upstream call is issued, or the
\* translation throws into the attempt's catch block.
Transform(r, throws) ==
  /\ reqs[r].pc = "transform"
  /\ LET rq == reqs[r]
     IN \E a \in (IF ~throws
                    THEN Only(pool, [rq EXCEPT !.pc = "fetch", !.calls = @ + 1])
                    ELSE Attempt(r, [rq EXCEPT !.lastError = ImageMessage,
                                               !.seen = @ \cup {TRANSLATE_ERROR}],
                                 markKeyCooling(pool, rq.apiKey, COOL_NETWORK_MIN, now),
                                 NoRun, rq.attempt + 1, rq.apiKey, TRUE)) :
          Commit(r, a)
  /\ lastOut' = IF throws
                  THEN OutOf(r, "translate", reqs[r].kind, reqs[r].apiKey, NoOut)
                  ELSE NoOut

\* await fetch(...) settles with outcome o and the handler runs on to its
\* next await or to its return.
Respond(r, o) ==
  /\ reqs[r].pc = "fetch"
  /\ LET rq == [reqs[r] EXCEPT !.seen = @ \cup {o.status}]
         e == handleApiError(pool, rq.apiKey, o.status, o.retryAfter, now)
     IN \E a \in (IF o.status = NETWORK_ERROR
                    THEN IF rq.kind = "chat"
                           THEN Attempt(r, [rq EXCEPT !.lastError = NetworkMessage],
                                        markKeyCooling(pool, rq.apiKey, COOL_NETWORK_MIN, now),
                                        NoRun, rq.attempt + 1, rq.apiKey, TRUE)
                           ELSE Attempt(r, [rq EXCEPT !.lastError = NetworkMessage],
                                        pool, rr, rq.attempt + 1, rq.apiKey, FALSE)
                  ELSE IF o.status = 200
                    THEN IF rq.kind = "chat" \/ o.bodyOk
                           THEN Only(pool, Return([rq EXCEPT !.okSeen = TRUE], OkResponse))
                           ELSE Attempt(r, [rq EXCEPT !.lastError = JsonMessage, !.okSeen = TRUE],
                                        pool, rr, rq.attempt + 1, rq.apiKey, FALSE)
                  ELSE IF e.type = "client_error"
                    THEN Only(e.pool, Return(rq, createErrorResponse(o.status, UpstreamBody)))
                  ELSE Attempt(r, [rq EXCEPT !.lastError = StatusError(rq.kind, e.type, o.status)],
                               e.pool, NoRun, rq.attempt + 1, rq.apiKey, TRUE)) :
          Commit(r, a)
  /\ lastOut' = OutOf(r, "response", reqs[r].kind, reqs[r].apiKey, o)

\* GET /v1/status: handleStatus runs from start to end without an await.
\* The health it reports is kept in lastOut.
handleStatus(h) ==
  /\ fetchAuth("GET", h).pass
  /\ LET g == getStats(pool, now)
     IN /\ pool' = g.pool
        /\ lastOut' = Arrived([NoOut EXCEPT !.what = "status",
                                            !.health = IF g.stats.availableKeys > 0
                                                         THEN "healthy" ELSE "degraded"],
                              "GET", h)
  /\ lastSel' = NoSel
  /\ reqs' = Delivered
  /\ UNCHANGED <<keys, strategy, now, ticks, started, rr, translation, stream>>

\* A request that fetch answers before routing it: an OPTIONS request, or
\* one that fails a token check.
Refuse(method, h) ==
  /\ ~fetchAuth(method, h).pass
  /\ lastOut' = Arrived([NoOut EXCEPT !.what = "auth",
                                      !.answer = fetchAuth(method, h).resp,
                                      !.headers = fetchAuth(method, h).headers],
                        method, h)
  /\ lastSel' = NoSel
  /\ reqs' = Delivered
  /\ UNCHANGED <<keys, strategy, pool, now, ticks, started, rr, translation, stream>>

\* Time passes while every handler is suspended.
TickSteps == {5 * MS_PER_MINUTE, 61 * MS_PER_MINUTE}

Tick(d) ==
  /\ ticks < TickLimit
  /\ now' = now + d
  /\ ticks' = ticks + 1
  /\ lastSel' = NoSel
  /\ lastOut' = NoOut
  /\ reqs' = Delivered
  /\ UNCHANGED <<keys, strategy, pool, started, rr, translation, stream>>

\* -------------------------------------------------- request translation
\* A chat message: its role and its content, a plain string.
Roles == {"system", "user", "assistant", "tool"}
Contents == {"a", "b"}
MessageLists == UNION {[1..n -> [role : Roles, content : Contents]] : n \in 0..MaxMessages}

\* transformMsg for a content that is not an array; "" is the role undefined.
transformMsg(role, content) == [role |-> role, parts |-> <<[text |-> content]>>]

\* undefined, where transformMessages found no system message.
NoInstruction == [role |-> "", parts |-> <<>>]

\* The loop of transformMessages from message i on.
RECURSIVE transformLoop(_, _, _)
transformLoop(messages, i, acc) ==
  IF i > Len(messages) THEN acc
  ELSE LET item == messages[i]
       IN transformLoop(messages, i + 1,
            IF item.role = "system"
              THEN [acc EXCEPT !.system_instruction = transformMsg("", item.content)]
              ELSE [acc EXCEPT !.contents =
                      Append(@, transformMsg(IF item.role = "assistant" THEN "model" ELSE "user",
                                             item.content))])

transformMessages(messages) ==
  LET r == transformLoop(messages, 1, [system_instruction |-> NoInstruction, contents |-> <<>>])
  IN IF r.system_instruction # NoInstruction /\ r.contents = <<>>
       THEN [r EXCEPT !.contents = <<[role |-> "model", parts |-> <<[text |-> " "]>>]>>]
       ELSE r

\* The message list of a request and, once translated, the upstream request.
NoTranslation ==
  [messages |-> <<>>, done |-> FALSE,
   result |-> [system_instruction |-> NoInstruction, contents |-> <<>>]]

\* await transformMessages(req.messages) settles.
TransformMessages ==
  /\ ~translation.done
  /\ translation' = [translation EXCEPT !.done = TRUE,
                                        !.result = transformMessages(translation.messages)]
  /\ UNCHANGED <<keys, strategy, pool, now, ticks, started, reqs, lastSel, rr, lastOut, stream>>

\* --------------------------------------------------- response translation
\* What an upstream frame (or the upstream JSON body) holds: a candidate
\* with or without content, with or without content.parts, the text of
\* parts[0] (<<>> when it is "" or missing; a text is the sequence of its
\* pieces, so that \o is string concatenation) and its finishReason ("" when
\* it has none); or a payload without candidates; or one JSON.parse rejects.
Cand(content, text, finishReason) ==
  [kind |-> "json", content |-> content, text |-> text, finishReason |-> finishReason]
NoCandidates == [kind |-> "nocand", content |-> "absent", text |-> <<>>, finishReason |-> ""]
Malformed == [kind |-> "malformed", content |-> "absent", text |-> <<>>, finishReason |-> ""]

FinishReasons == {"STOP", "MAX_TOKENS", "SAFETY", "RECITATION", "OTHER"}

UpstreamFrames ==
  {Cand("parts", <<"Hello">>, ""), Cand("parts", <<" world">>, ""), Cand("parts", <<>>, ""),
   Cand("parts", <<"!">>, "STOP"), Cand("noparts", <<>>, "MAX_TOKENS"),
   NoCandidates, Malformed}
    \cup {Cand("absent", <<>>, r) : r \in FinishReasons}

FrameLists == UNION {[1..n -> UpstreamFrames] : n \in 0..MaxFrames}

\* reasonsMap[r]; "" is undefined.
reasonsMapRaw(r) == ""

reasonsMap(r) ==
  CASE r = "STOP" -> "stop"
    [] r = "MAX_TOKENS" -> "length"
    [] r = "SAFETY" -> "content_filter"
    [] r = "RECITATION" -> "content_filter"
    [] OTHER -> ""

\* reasonsMap[r] || r
MappedReason(r) == IF reasonsMap(r) # "" THEN reasonsMap(r) ELSE r

\* What handleNonStreamResponse has returned: nothing yet (status 0), the
\* completion with its message content and finish_reason, or the error.
NoJson == [status |-> 0, content |-> <<>>, finish_reason |-> ""]

\* handleNonStreamResponse for a body with the one candidate c.
\* cand.content?.parts[0] throws when content has no parts.
handleNonStreamResponse(c) ==
  IF c.kind # "json" \/ c.content = "noparts"
    THEN [status |-> 500, content |-> <<>>, finish_reason |-> ""]
    ELSE [status |-> 200, content |-> c.text, finish_reason |-> MappedReason(c.finishReason)]

\* The bytes of the upstream stream, as tokens: frame i is "data: " and its
\* payload, cut in pieces (h = 1, 2, ...) since a read may end inside a
\* frame: two pieces, and one more for every piece of text after the first.
\* A line break is the token NL, the separator two of them. The length of a
\* string is its number of tokens.
NL == [f |-> 0, h |-> 0]
Separator == <<NL, NL>>
FrameSize(frame) == IF Len(frame.text) > 1 THEN Len(frame.text) + 1 ELSE 2
FrameBytes(frames, i) == [h \in 1..FrameSize(frames[i]) |-> [f |-> i, h |-> h]]

RECURSIVE StreamBytes(_, _, _)
StreamBytes(frames, i, terminated) ==
  IF i > Len(frames) THEN <<>>
  ELSE FrameBytes(frames, i) \o (IF i < Len(frames) \/ terminated THEN Separator ELSE <<>>)
         \o StreamBytes(frames, i + 1, terminated)

\* buffer.split(STREAM_SPLIT_REGEX)
RECURSIVE split(_, _)
split(s, cur) ==
  IF s = <<>> THEN <<cur>>
  ELSE IF Len(s) >= 2 /\ s[1] = NL /\ s[2] = NL
    THEN <<cur>> \o split(SubSeq(s, 3, Len(s)), <<>>)
    ELSE split(Tail(s), Append(cur, s[1]))

\* String.trim
RECURSIVE trim(_)
trim(s) ==
  IF s = <<>> THEN s
  ELSE IF s[1] = NL THEN trim(Tail(s))
  ELSE IF s[Len(s)] = NL THEN trim(SubSeq(s, 1, Len(s) - 1))
  ELSE s

\* part.startsWith('data: ')
startsWithData(part) == part # <<>> /\ part[1].h = 1

\* JSON.parse(part.slice(6).trim()): the payload of frame i when the part is
\* the whole of frame i, else a parse failure.
parse(frames, part) ==
  LET c == trim(part)
  IN IF c # <<>> /\ c[1].f \in DOMAIN frames /\ c = FrameBytes(frames, c[1].f)
       THEN frames[c[1].f]
       ELSE Malformed

\* A client frame: the delta of its choice (role, content, or neither when
\* has is FALSE) and its finish_reason ("" is null); id, model and created
\* are left out.
createOptimizedChunk(content, isFirst, isLast, finishReason) ==
  [sse |-> "chunk",
   delta |-> IF isLast THEN [role |-> "", has |-> FALSE, content |-> <<>>]
             ELSE IF isFirst THEN [role |-> "assistant", has |-> TRUE, content |-> <<>>]
             ELSE [role |-> "", has |-> TRUE, content |-> content],
   finish_reason |-> IF isLast THEN finishReason ELSE ""]

\* data: [DONE]
DONE == [sse |-> "[DONE]", delta |-> [role |-> "", has |-> FALSE, content |-> <<>>],
         finish_reason |-> ""]

\* The response to one successful upstream call: the upstream frames and
\* whether the last one is followed by the separator, how far the response
\* got (none, open, closed, errored when streamed; json when not), the bytes
\* still to come, the state of createOptimizedParseStream (buffer,
\* isFirstChunk), the client frames enqueued, and the non-streamed result.
NoStream ==
  [phase |-> "none", frames |-> <<>>, terminated |-> TRUE, rest |-> <<>>, buffer |-> <<>>,
   isFirstChunk |-> TRUE, out |-> <<>>, json |-> NoJson]

enqueue(s, chunk) == [s EXCEPT !.out = Append(@, chunk)]

\* The body of transform's loop with a catch block that emits nothing.
transformPartDropsMalformed(s, part) ==
  IF ~startsWithData(part) THEN s
  ELSE LET p == parse(s.frames, part)
       IN IF p.kind \in {"malformed", "nocand"} THEN s
          ELSE LET s1 == IF s.isFirstChunk
                           THEN [enqueue(s, createOptimizedChunk(<<>>, TRUE, FALSE, ""))
                                   EXCEPT !.isFirstChunk = FALSE]
                           ELSE s
                   s2 == IF p.content = "parts" /\ p.text # <<>>
                           THEN enqueue(s1, createOptimizedChunk(p.text, FALSE, FALSE, ""))
                           ELSE s1
               IN IF p.finishReason # ""
                    THEN enqueue(s2, createOptimizedChunk(<<>>, FALSE, TRUE,
                                                          MappedReason(p.finishReason)))
                    ELSE s2

\* The body of transform's loop for one part.
transformPart(s, part) ==
  IF ~startsWithData(part) THEN s
  ELSE LET p == parse(s.frames, part)
       IN IF p.kind = "malformed"
            THEN enqueue(s, createOptimizedChunk(<<>>, FALSE, FALSE, ""))
          ELSE IF p.kind = "nocand" THEN s
          ELSE LET s1 == IF s.isFirstChunk
                           THEN [enqueue(s, createOptimizedChunk(<<>>, TRUE, FALSE, ""))
                                   EXCEPT !.isFirstChunk = FALSE]
                           ELSE s
                   s2 == IF p.content = "parts" /\ p.text # <<>>
                           THEN enqueue(s1, createOptimizedChunk(p.text, FALSE, FALSE, ""))
                           ELSE s1
               IN IF p.finishReason # ""
                    THEN enqueue(s2, createOptimizedChunk(<<>>, FALSE, TRUE,
                                                          MappedReason(p.finishReason)))
                    ELSE s2

RECURSIVE transformParts(_, _)
transformParts(s, parts) ==
  IF parts = <<>> THEN s
  ELSE transformParts(transformPart(s, Head(parts)), Tail(parts))

\* buffer.slice(-n)
sliceLast(buffer, n) ==
  IF Len(buffer) <= n THEN buffer ELSE SubSeq(buffer, Len(buffer) - n + 1, Len(buffer))

\* transform forgetting what the reads before left in the buffer.
transformNoCarry(s, chunk) ==
  LET parts == split(chunk, <<>>)
  IN transformParts([s EXCEPT !.buffer = parts[Len(parts)]],
                    SubSeq(parts, 1, Len(parts) - 1))

\* transform without the size check on the buffer.
transformUnbounded(s, chunk) ==
  LET parts == split(s.buffer \o chunk, <<>>)
  IN transformParts([s EXCEPT !.buffer = parts[Len(parts)]],
                    SubSeq(parts, 1, Len(parts) - 1))

\* transform(chunk, controller)
transform(s, chunk) ==
  LET appended == s.buffer \o chunk
      kept == IF Len(appended) > MAX_BUFFER_SIZE
                THEN sliceLast(appended, MAX_BUFFER_SIZE \div 2)
                ELSE appended
      parts == split(kept, <<>>)
  IN transformParts([s EXCEPT !.buffer = parts[Len(parts)]],
                    SubSeq(parts, 1, Len(parts) - 1))

\* flush(controller)
flush(s) ==
  LET line == trim(s.buffer)
      p == parse(s.frames, line)
      s1 == IF line # <<>> /\ startsWithData(line) /\ p.kind = "json"
                 /\ p.content = "parts" /\ p.text # <<>>
              THEN enqueue(s, createOptimizedChunk(p.text, FALSE, FALSE, ""))
              ELSE s
  IN enqueue(s1, DONE)

Aside == <<keys, strategy, pool, now, ticks, started, reqs, lastSel, rr, lastOut, translation>>

\* handleStreamResponse: the pipe is set up and the response returned.
StreamResponse ==
  /\ stream.phase = "none"
  /\ stream' = [stream EXCEPT !.phase = "open",
                              !.rest = StreamBytes(stream.frames, 1, stream.terminated)]
  /\ UNCHANGED Aside

\* A read of n tokens from the upstream body goes through the pipe.
StreamChunk(n) ==
  /\ stream.phase = "open"
  /\ n \in 1..Len(stream.rest)
  /\ stream' = [transform(stream, SubSeq(stream.rest, 1, n))
                  EXCEPT !.rest = SubSeq(stream.rest, n + 1, Len(stream.rest))]
  /\ UNCHANGED Aside

\* The upstream body closes: the pipe closes the parse stream, which runs
\* flush, and then the client's stream.
UpstreamClose ==
  /\ stream.phase = "open"
  /\ stream.rest = <<>>
  /\ stream' = [flush(stream) EXCEPT !.phase = "closed"]
  /\ UNCHANGED Aside

\* The upstream body fails with a network error: the pipe aborts every
\* stream after it, no flush runs, pipeTo rejects and the catch closes a
\* writable that is already errored. The client's stream ends in error.
UpstreamError ==
  /\ stream.phase = "open"
  /\ stream' = [stream EXCEPT !.phase = "errored"]
  /\ UNCHANGED Aside

\* The body the upstream returns when the same content is not streamed:
\* one candidate with the whole text and the finishReason of the last frame.
RECURSIVE WholeText(_, _)
WholeText(frames, i) ==
  IF i > Len(frames) THEN <<>>
  ELSE (IF frames[i].content = "parts" THEN frames[i].text ELSE <<>>) \o WholeText(frames, i + 1)

Whole(frames) ==
  Cand(IF \E i \in DOMAIN frames : frames[i].content = "parts" THEN "parts"
       ELSE IF \E i \in DOMAIN frames : frames[i].content = "noparts" THEN "noparts"
       ELSE "absent",
       WholeText(frames, 1),
       frames[Len(frames)].finishReason)

\* await handleNonStreamResponse(response, model, id) settles, for content
\* made of candidates only.
NonStreamResponse ==
  /\ stream.phase = "none"
  /\ stream.frames # <<>>
  /\ \A i \in DOMAIN stream.frames : stream.frames[i].kind = "json"
  /\ stream' = [stream EXCEPT !.phase = "json",
                              !.json = handleNonStreamResponse(Whole(stream.frames))]
  /\ UNCHANGED Aside

\* Date.now() when the first request arrives: later than one cleanup
\* interval after the epoch.
StartTime == 2 * CLEANUP_INTERVAL_MS

InitWith(n) ==
  /\ \E m \in 1..MaxKeys : keys = [i \in 1..m |-> i]
  /\ strategy \in Strategies
  /\ pool = NewPool
  /\ now = StartTime
  /\ ticks = 0
  /\ started = 0
  /\ reqs = [r \in 1..n |-> IdleReq]
  /\ lastSel = NoSel
  /\ lastOut = NoOut
  /\ rr = NoRun
  /\ translation = NoTranslation
  /\ stream = NoStream

\* One request at a time, every kind of request and of upstream outcome.
Init == InitWith(1)

Next ==
  \/ \E r \in Reqs, kind \in Kinds, valid \in BOOLEAN : Start(r, kind, valid, Authorized)
  \/ \E r \in Reqs, throws \in BOOLEAN : Transform(r, throws)
  \/ \E r \in Reqs, o \in Outcomes : Respond(r, o)
  \/ handleStatus(Authorized)
  \/ \E d \in TickSteps : Tick(d)

Spec == Init /\ [][Next]_vars

\* Requests in flight together, interleaved at their awaits; well-formed
\* requests, and one upstream outcome for each way the pool can be marked.
ConcOutcomes ==
  {o \in Outcomes : /\ o.status \in {200, 401, 429, 502, 503, NETWORK_ERROR}
                    /\ o.bodyOk
                    /\ (o.status = 429 => o.retryAfter = "172800")}
ConcTickSteps == {5 * MS_PER_MINUTE}

InitConc == InitWith(NumReqs)

NextConc ==
  \/ \E r \in Reqs, kind \in Kinds : Start(r, kind, TRUE, Authorized)
  \/ \E r \in Reqs : Transform(r, FALSE)
  \/ \E r \in Reqs, o \in ConcOutcomes : Respond(r, o)
  \/ handleStatus(Authorized)
  \/ \E d \in ConcTickSteps : Tick(d)

SpecConc == InitConc /\ [][NextConc]_vars

\* Requests in flight together under the event loop's guarantee: a handler
\* suspended at an await is resumed once the awaited call has settled, and
\* every upstream call and every translation settles. The clock stands
\* still: no cooldown ever expires.
LiveOutcomes ==
  {o \in ConcOutcomes : o.status \in {200, 401, NETWORK_ERROR}}

NextLive ==
  \/ \E r \in Reqs, kind \in Kinds : Start(r, kind, TRUE, Authorized)
  \/ \E r \in Reqs : Transform(r, FALSE)
  \/ \E r \in Reqs, o \in LiveOutcomes : Respond(r, o)

\* The handler of request r is resumed at the await it is suspended at.
Resume(r) == Transform(r, FALSE) \/ \E o \in LiveOutcomes : Respond(r, o)

SpecLive ==
  InitConc /\ [][NextLive]_vars /\ \A r \in 1..NumReqs : WF_vars(Resume(r))

\* One request at a time with any method and any Authorization header;
\* well-formed bodies, and the upstream outcomes of NextConc.
NextAuth ==
  \/ \E r \in Reqs, kind \in Kinds, h \in AuthHeaders : Start(r, kind, TRUE, h)
  \/ \E r \in Reqs : Transform(r, FALSE)
  \/ \E r \in Reqs, o \in ConcOutcomes : Respond(r, o)
  \/ \E h \in AuthHeaders : handleStatus(h)
  \/ \E m \in Methods, h \in AuthHeaders : Refuse(m, h)
  \/ \E d \in ConcTickSteps : Tick(d)

SpecAuth == Init /\ [][NextAuth]_vars

\* getNextKey called by an attempt whose upstream call then succeeds:
\* markKeySuccess leaves the pool as it is.
SelectNext ==
  /\ \E s \in getNextKey(pool, now) :
       /\ pool' = s.pool
       /\ lastSel' = SelOf(1, pool, s, Undefined, FALSE, {})
  /\ lastOut' = NoOut
  /\ UNCHANGED <<keys, strategy, now, ticks, started, reqs, rr, translation, stream>>

\* Time passes between two calls.
RecoverStep == 60 * MS_PER_MINUTE

Advance ==
  /\ ticks < MaxAdvances
  /\ now' = now + RecoverStep
  /\ ticks' = ticks + 1
  /\ UNCHANGED <<keys, strategy, pool, started, reqs, lastSel, rr, lastOut, translation, stream>>

\* A round-robin pool in which, at StartTime, some keys were marked cooling
\* for the minutes of handleApiError's table and some others failed, and
\* which is then only asked for keys.
CoolMinutes == {COOL_GATEWAY_MIN, COOL_SERVER_MIN, COOL_RATELIMIT_MIN}

RECURSIVE CoolAll(_, _, _)
CoolAll(p, ks, mins) ==
  IF ks = <<>> THEN p
  ELSE CoolAll(markKeyCooling(p, Head(ks), mins[Head(ks)], StartTime), Tail(ks), mins)

InitRecover ==
  /\ \E m \in 1..MaxKeys : keys = [i \in 1..m |-> i]
  /\ strategy = "round-robin"
  /\ \E cooled \in SUBSET {keys[i] : i \in DOMAIN keys} :
       \E failed \in SUBSET ({keys[i] : i \in DOMAIN keys} \ cooled) :
         \E mins \in [cooled -> CoolMinutes] :
           /\ cooled # {}
           /\ pool = CoolAll([NewPool EXCEPT !.failedKeys = failed, !.cacheValid = failed = {}],
                             SelectSeq(keys, LAMBDA k : k \in cooled), mins)
  /\ now = StartTime
  /\ ticks = 0
  /\ started = 0
  /\ reqs = [r \in 1..1 |-> IdleReq]
  /\ lastSel = NoSel
  /\ lastOut = NoOut
  /\ rr = NoRun
  /\ translation = NoTranslation
  /\ stream = NoStream

NextRecover == SelectNext \/ Advance

SpecRecover ==
  InitRecover /\ [][NextRecover]_vars /\ WF_vars(SelectNext) /\ WF_vars(Advance)

\* The fetch handler answering by itself a request that passed the token
\* checks: a method the route does not take, a body that is not JSON, or a
\* path that is no route.
RouteErrors ==
  {createErrorResponse(405, "Method not allowed"), createErrorResponse(400, "Invalid JSON body"),
   createErrorResponse(404, "")}

fetchRoute(method, resp) ==
  /\ fetchAuth(method, Authorized).pass
  /\ resp \in RouteErrors
  /\ lastOut' = Arrived([NoOut EXCEPT !.what = "route", !.answer = resp,
                                      !.headers = COMMON_HEADERS_JSON],
                        method, Authorized)
  /\ lastSel' = NoSel
  /\ reqs' = Delivered
  /\ UNCHANGED <<keys, strategy, pool, now, ticks, started, rr, translation, stream>>

\* One request at a time, with every answer the worker gives by itself and
\* upstream statuses with and without an entry in ERROR_TEMPLATES (409 and
\* 413 have none).
ErrorStatuses == {200, 400, 401, 404, 409, 413, 429, 500}

ErrorOutcomes ==
  {[status |-> st, retryAfter |-> "", bodyOk |-> b] :
     st \in ErrorStatuses \cup {NETWORK_ERROR}, b \in BOOLEAN}

NextErrors ==
  \/ \E r \in Reqs, kind \in Kinds, valid \in BOOLEAN : Start(r, kind, valid, Authorized)
  \/ \E r \in Reqs, throws \in BOOLEAN : Transform(r, throws)
  \/ \E r \in Reqs, o \in ErrorOutcomes : Respond(r, o)
  \/ \E m \in Methods, h \in AuthHeaders : Refuse(m, h)
  \/ \E m \in Methods, resp \in RouteErrors : fetchRoute(m, resp)

SpecErrors == Init /\ [][NextErrors]_vars

\* The worker before its first request.
Fresh ==
  /\ keys = <<1>>
  /\ strategy = "round-robin"
  /\ pool = NewPool
  /\ now = StartTime
  /\ ticks = 0
  /\ started = 0
  /\ reqs = [r \in 1..1 |-> IdleReq]
  /\ lastSel = NoSel
  /\ lastOut = NoOut
  /\ rr = NoRun

\* The translation of the message list of one request.
InitTranslate ==
  /\ Fresh
  /\ translation \in {[NoTranslation EXCEPT !.messages = m] : m \in MessageLists}
  /\ stream = NoStream

NextTranslate == TransformMessages

SpecTranslate == InitTranslate /\ [][NextTranslate]_vars

\* The translation of the response to one successful upstream call.
InitStream ==
  /\ Fresh
  /\ translation = NoTranslation
  /\ stream \in {[NoStream EXCEPT !.frames = fs, !.terminated = t] :
                   fs \in FrameLists, t \in BOOLEAN}

NextStream ==
  \/ StreamResponse
  \/ \E n \in 1..(4 * MaxFrames) : StreamChunk(n)
  \/ UpstreamClose
  \/ UpstreamError
  \/ NonStreamResponse

SpecStream == InitStream /\ [][NextStream]_vars

\* The translation of a streamed response in which a frame can be longer
\* than the buffer's limit.
BigText == [i \in 1..(MAX_BUFFER_SIZE + 1) |-> "x"]
BigFrames == {Cand("parts", <<"Hello">>, ""), Cand("parts", BigText, ""), Cand("parts", <<"!">>, "STOP")}
MaxBigFrames == 2
MaxRead == MaxBigFrames * (MAX_BUFFER_SIZE + 4)

InitBuffer ==
  /\ Fresh
  /\ translation = NoTranslation
  /\ stream \in {[NoStream EXCEPT !.frames = fs, !.terminated = t] :
                   fs \in UNION {[1..n -> BigFrames] : n \in 1..MaxBigFrames}, t \in BOOLEAN}

NextBuffer ==
  \/ StreamResponse
  \/ \E n \in 1..MaxRead : StreamChunk(n)
  \/ UpstreamClose

SpecBuffer == InitBuffer /\ [][NextBuffer]_vars

\* ================================================================ claims
KeySet == {keys[i] : i \in DOMAIN keys}
\* The step just taken called getNextKey.
Selected == lastSel.req # 0
\* k has a cooling entry that has not expired at time t (an entry with a NaN
\* expiry never expires: now >= NaN is false).
CoolingAt(m, k, t) == \E i \in DOMAIN m : m[i].key = k /\ ~Ge(t, m[i].until)
\* k has a cooling entry that has expired at time t.
ExpiredAt(m, k, t) == \E i \in DOMAIN m : m[i].key = k /\ Ge(t, m[i].until)
\* k is Available: neither failed nor cooling.
SelectableAt(F, m, k, t) == k \notin F /\ ~CoolingAt(m, k, t)
\* The same, in the state the last selection started from.
PreCooling(k) == CoolingAt(lastSel.preCooling, k, now)
PreSelectable(k) == SelectableAt(lastSel.preFailed, lastSel.preCooling, k, now)
Elems(q) == {q[i] : i \in DOMAIN q}

\* C1: getNextKey never returns a key that is in the failed set (a full
\* reset empties the set, so a key in it was marked since the last reset).
C1_FailedNeverSelected == Selected => lastSel.key \notin pool.failedKeys

\* C2: no key is in the failed set and in the cooling map at the same time.
C2_HealthExclusive ==
  \A k \in KeySet : ~(k \in pool.failedKeys /\ MapHas(pool.coolingKeys, k))

\* C3: getNextKey does not return a key whose cooling entry has not expired
\* while some other key is neither failed nor cooling.
C3_CoolingExcluded ==
  Selected =>
    \A c \in KeySet :
      (PreCooling(c) /\ \E d \in KeySet \ {c} : PreSelectable(d)) => lastSel.key # c

C3_Witness ==
  /\ Selected
  /\ \E c \in KeySet : /\ PreCooling(c)
                       /\ c \notin lastSel.preFailed
                       /\ lastSel.key \in KeySet \ {c}
                       /\ PreSelectable(lastSel.key)

\* C4: at and after the expiry of its cooling entry a key that is not failed
\* is part of the selectable view every getNextKey call chooses from.
C4_SelectableAtExpiry ==
  Selected =>
    \A c \in KeySet :
      (ExpiredAt(lastSel.preCooling, c, now) /\ c \notin lastSel.preFailed)
        => c \in Elems(lastSel.view)

\* C5: getNextKey returns one of the configured keys in every pool state.
C5_SelectTotal == Selected => lastSel.key \in KeySet

C5_Witness ==
  /\ Selected
  /\ \A k \in KeySet : ~PreSelectable(k)
  /\ lastSel.key \in KeySet

\* C6: when no key is selectable and some key is cooling, getNextKey returns
\* a cooling key whose expiry is the soonest of all cooling keys (an entry
\* that never expires comes after every entry that does).
SoonerOrEqual(a, b) == IsNaN(b) \/ (~IsNaN(a) /\ a <= b)
C6_SoonestCooling ==
  (/\ Selected
   /\ \A k \in KeySet : ~PreSelectable(k)
   /\ \E k \in KeySet : PreCooling(k))
  => /\ PreCooling(lastSel.key)
     /\ \A i \in DOMAIN lastSel.preCooling :
          ~Ge(now, lastSel.preCooling[i].until)
            => SoonerOrEqual(MapGet(lastSel.preCooling, lastSel.key),
                             lastSel.preCooling[i].until)

\* C7: getNextKey resets the pool exactly when every key is failed and none
\* is cooling; the reset empties the failed set and the cooling map and the
\* first configured key is returned.
C7_ResetExactly ==
  Selected =>
    /\ lastSel.path = "reset"
         <=> /\ \A k \in KeySet : k \in lastSel.preFailed
             /\ \A k \in KeySet : ~PreCooling(k)
    /\ lastSel.path = "reset"
         => /\ pool.failedKeys = {}
            /\ pool.coolingKeys = <<>>
            /\ lastSel.key = keys[1]

C7_Witness ==
  /\ Selected
  /\ lastSel.path = "reset"
  /\ lastSel.preFailed = KeySet
  /\ Len(keys) > 1

\* C8: consecutive round-robin selections over an unchanged view of N keys
\* follow the view cyclically from the cursor, so that after M of them every
\* key of the view was returned floor(M/N) or ceil(M/N) times.
Count(q, k) == Cardinality({i \in DOMAIN q : q[i] = k})
C8_RoundRobinFair ==
  rr.run # <<>> =>
    LET N == Len(rr.view)
        M == Len(rr.run)
    IN /\ N > 0
       /\ \A i \in 1..M : rr.run[i] = rr.view[((rr.start + i - 1) % N) + 1]
       /\ \A k \in Elems(rr.view) :
            Count(rr.run, k) \in {M \div N, (M + N - 1) \div N}

C8_Witness ==
  /\ Len(rr.run) = MaxRun
  /\ Len(rr.view) > 1

\* C9: a request makes at most min(3, keys) upstream calls (chat) or
\* min(2, keys) (models, embeddings), and none after an upstream call of its
\* own was answered with success.
C9_CallBudget ==
  \A r \in Reqs :
    /\ reqs[r].calls <= MathMin(Budget(reqs[r].kind), Len(keys))
    /\ ~(reqs[r].okSeen /\ reqs[r].pc = "fetch")

\* The first half of C9 alone.
CallsWithinBudget ==
  \A r \in Reqs : reqs[r].calls <= MathMin(Budget(reqs[r].kind), Len(keys))

AfterFailed == IF Selected THEN lastSel.preFailed ELSE pool.failedKeys
AfterCooling == IF Selected THEN lastSel.preCooling ELSE pool.coolingKeys
\* The step just taken handled the settling of an upstream call.
Responded == lastOut.what = "response"
\* rq has returned the error of a retry loop that ran out of attempts.
ExhaustionError(rq) == rq.pc = "done" /\ rq.resp.status = 500 /\ rq.seen # {}

\* C11: when a chat request is answered with the error of an exhausted
\* retry loop, every configured key is failed or has a cooling entry.
C11_ExhaustedOnlyWhenAllOut ==
  \A r \in Reqs :
    (reqs[r].kind = "chat" /\ ExhaustionError(reqs[r]))
      => \A k \in KeySet : k \in pool.failedKeys \/ MapHas(pool.coolingKeys, k)

\* The cooldown the error table gives for an upstream status, in minutes.
TableMinutes(status) ==
  CASE status = 503 -> 1440
    [] status \in {502, 504} -> 5
    [] OTHER -> 10

\* C12: a step that handles an upstream 401, 403, 502, 503, 504 or other
\* 5xx leaves the used key failed (401, 403) or cooling until the time of
\* the call plus 1440 (503), 5 (502, 504) or 10 minutes, leaves every other
\* key's entry in the failed set and the cooling map as it was, and goes on
\* to the next attempt exactly if the budget is not used up.
C12_ClassifierTable ==
  [][(lastOut'.what = "response" /\ lastOut'.status \in {401, 403} \cup {st \in Statuses : st >= 500})
       => LET k == lastOut'.key
              r == lastOut'.req
              F == AfterFailed'
              C == AfterCooling'
          IN /\ lastOut'.status \in {401, 403}
                  => k \in F /\ ~MapHas(C, k)
             /\ lastOut'.status >= 500
                  => /\ MapHas(C, k)
                     /\ MapGet(C, k) = now + TableMinutes(lastOut'.status) * 60000
                     /\ k \in F <=> k \in pool.failedKeys
             /\ \A j \in KeySet \ {k} :
                  /\ j \in F <=> j \in pool.failedKeys
                  /\ MapHas(C, j) <=> MapHas(pool.coolingKeys, j)
                  /\ MapHas(C, j) => MapGet(C, j) = MapGet(pool.coolingKeys, j)
             /\ IF reqs[r].attempt + 1 < reqs[r].maxRetries
                  THEN reqs'[r].pc \in {"transform", "fetch"} /\ reqs'[r].attempt = reqs[r].attempt + 1
                  ELSE reqs'[r].pc = "done"]_vars

C12_Witness ==
  /\ Responded
  /\ lastOut.status = 503
  /\ Selected
  /\ MapHas(AfterCooling, lastOut.key)
  /\ \E j \in KeySet \ {lastOut.key} : j \in AfterFailed

\* max(Retry-After in minutes, 1440) for the header values of
\* RetryAfterValues; the HTTP-date among them lies in the past.
ExpectedRateLimitMinutes(h) == IF h = "172800" THEN 2880 ELSE 1440

\* C13: a step that handles an upstream 429 leaves the used key cooling
\* until the time of the call plus max(Retry-After in minutes, 1440)
\* minutes: plus exactly 1440 minutes without the header, never less with it.
C13_RateLimitCooldown ==
  (Responded /\ lastOut.status = 429)
    => /\ MapHas(AfterCooling, lastOut.key)
       /\ MapGet(AfterCooling, lastOut.key)
            = now + ExpectedRateLimitMinutes(lastOut.retryAfter) * 60000

\* The part of C13 about a 429 that carries no Retry-After header, or one
\* in delay-seconds.
RateLimitCooldownInSeconds ==
  (/\ Responded
   /\ lastOut.status = 429
   /\ lastOut.retryAfter = "" \/ ~IsNaN(parseInt(lastOut.retryAfter)))
    => /\ MapHas(AfterCooling, lastOut.key)
       /\ MapGet(AfterCooling, lastOut.key)
            = now + ExpectedRateLimitMinutes(lastOut.retryAfter) * 60000

\* Upstream statuses the classifier treats as client errors.
ClientStatuses == {st \in Statuses : st # 200 /\ st < 500 /\ st \notin {401, 403, 429}}

\* C14: a step that handles an upstream client error changes nothing in the
\* pool (failed set, cooling map, cached selectable view and its validity,
\* cursor), selects no key, makes no upstream call and returns.
C14_ClientErrorNoTransition ==
  [][(lastOut'.what = "response" /\ lastOut'.status \in ClientStatuses)
       => LET r == lastOut'.req
          IN /\ pool'.failedKeys = pool.failedKeys
             /\ pool'.coolingKeys = pool.coolingKeys
             /\ pool'.availableKeysCache = pool.availableKeysCache
             /\ pool'.cacheValid = pool.cacheValid
             /\ pool'.currentIndex = pool.currentIndex
             /\ lastSel' = NoSel
             /\ reqs'[r].calls = reqs[r].calls
             /\ reqs'[r].pc = "done"]_vars

C14_Witness ==
  /\ Responded
  /\ lastOut.status \in ClientStatuses
  /\ reqs[lastOut.req].pc = "done"
  /\ reqs[lastOut.req].calls = 1
  /\ reqs[lastOut.req].calls < MathMin(Budget(lastOut.kind), Len(keys))
  /\ pool.coolingKeys # <<>>

\* C15: the response to a request whose upstream call ended in a client
\* error has the upstream status and the upstream body text as its message.
C15_ClientErrorVerbatim ==
  (Responded /\ lastOut.status \in ClientStatuses)
    => /\ reqs[lastOut.req].resp.status = lastOut.status
       /\ reqs[lastOut.req].resp.body.message = UpstreamBody

\* The part of C15 about the status.
ClientErrorStatusKept ==
  (Responded /\ lastOut.status \in ClientStatuses)
    => reqs[lastOut.req].resp.status = lastOut.status

\* C16: a step that handles a network exception of the upstream call leaves
\* the used key cooling until the time of the call plus 5 minutes, and goes
\* on to the next attempt if the budget is not used up, on every endpoint.
C16_NetworkErrorCools ==
  (Responded /\ lastOut.status = NETWORK_ERROR)
    => /\ MapHas(AfterCooling, lastOut.key)
       /\ MapGet(AfterCooling, lastOut.key) = now + 5 * 60000
       /\ reqs[lastOut.req].pc \in {"transform", "fetch", "done"}

\* C16 on the chat endpoint alone.
NetworkErrorCoolsChat ==
  (Responded /\ lastOut.status = NETWORK_ERROR /\ lastOut.kind = "chat")
    => /\ MapHas(AfterCooling, lastOut.key)
       /\ MapGet(AfterCooling, lastOut.key) = now + 5 * 60000

\* C17: a chat request whose retry loop ran out of attempts, each of them
\* ended by an upstream status or a network exception, is answered with
\* status 500, type server_error and the message "All API keys failed or
\* cooling".
C17_ExhaustionMessage ==
  \A r \in Reqs :
    (reqs[r].kind = "chat" /\ ExhaustionError(reqs[r]) /\ TRANSLATE_ERROR \notin reqs[r].seen)
      => /\ reqs[r].resp.status = 500
         /\ reqs[r].resp.body.type = "server_error"
         /\ reqs[r].resp.body.message = "All API keys failed or cooling"

\* The part of C17 about the status and the type of the error.
ExhaustionIsServerError ==
  \A r \in Reqs :
    (reqs[r].pc = "done" /\ reqs[r].seen # {} /\ reqs[r].resp.status \notin {200} \cup ClientStatuses)
      => /\ reqs[r].resp.status = 500
         /\ reqs[r].resp.body.type = "server_error"
         /\ reqs[r].resp.body.code = 500

Rejected == lastOut.what = "invalid"

\* C19: a chat request whose body fails validateRequest is answered with
\* status 400 and an error of type invalid_request_error.
C19_InvalidIs400 ==
  (Rejected /\ lastOut.kind = "chat")
    => /\ reqs[lastOut.req].resp.status = 400
       /\ reqs[lastOut.req].resp.body.type = "invalid_request_error"

\* C20: a step that handles a request failing validation leaves the pool as
\* it was, calls getNextKey for no key and makes no upstream call.
C20_InvalidTouchesNothing ==
  [][lastOut'.what = "invalid"
       => /\ pool' = pool
          /\ lastSel' = NoSel
          /\ reqs'[lastOut'.req].pc = "done"
          /\ reqs'[lastOut'.req].calls = 0
          /\ reqs'[lastOut'.req].tried = {}]_vars

C20_Witness ==
  /\ Rejected
  /\ lastOut.kind = "chat"
  /\ reqs[lastOut.req].pc = "done"
  /\ reqs[lastOut.req].calls = 0
  /\ pool.failedKeys # {}
  /\ strategy = "round-robin"

\* C21: a step in which the translation of the request fails answers the
\* caller with status 400, marks no key failed or cooling and goes on to no
\* further attempt.
C21_TranslationIsClientError ==
  [][lastOut'.what = "translate"
       => /\ reqs'[lastOut'.req].pc = "done"
          /\ reqs'[lastOut'.req].resp.status = 400
          /\ AfterFailed' = pool.failedKeys
          /\ AfterCooling' = pool.coolingKeys
          /\ lastSel' = NoSel]_vars

\* The minutes the handler passes to markKeyCooling for the outcome the
\* last step handled: the error table, 1440 for a 429 without Retry-After,
\* 5 for a network exception in handleRequest.
MarkedMinutes(out) ==
  CASE out.status = NETWORK_ERROR -> 5
    [] out.status = 429 -> 1440
    [] OTHER -> TableMinutes(out.status)

\* The step handled an outcome for which the handler calls markKeyCooling.
CoolingOutcome(out) ==
  /\ out.what = "response"
  /\ \/ out.status >= 500
     \/ out.status = 429 /\ out.retryAfter = ""
     \/ out.status = NETWORK_ERROR /\ out.kind = "chat"

\* C29: markKeyCooling on a key that already has a cooling entry sets the
\* entry to the time of the call plus the minutes passed, whatever the old
\* expiry was, and leaves the failed set and the other keys' entries as
\* they were.
C29_CoolingReplaces ==
  [][(CoolingOutcome(lastOut') /\ MapHas(pool.coolingKeys, lastOut'.key))
       => LET k == lastOut'.key
              C == AfterCooling'
          IN /\ MapHas(C, k)
             /\ MapGet(C, k) = now + MarkedMinutes(lastOut') * 60000
             /\ AfterFailed' = pool.failedKeys
             /\ Len(C) = Len(pool.coolingKeys)
             /\ \A j \in KeySet \ {k} :
                  MapHas(pool.coolingKeys, j)
                    => MapHas(C, j) /\ MapGet(C, j) = MapGet(pool.coolingKeys, j)]_vars

\* A key that was cooling for 1440 minutes has just been marked for 5.
C29_Witness ==
  /\ CoolingOutcome(lastOut)
  /\ lastOut.status = 502
  /\ lastSel.req = 0
  /\ MapHas(pool.coolingKeys, lastOut.key)
  /\ MapGet(pool.coolingKeys, lastOut.key) = now + 5 * 60000
  /\ lastOut.key \in reqs[lastOut.req].tried
  /\ reqs[lastOut.req].seen = {503, 502}
  /\ Cardinality(reqs[lastOut.req].tried) = 1

\* C30: whenever the cached view is marked valid it is the configured list
\* without the failed keys and without the keys whose cooling entry has not
\* expired at the current time.
C30_CacheWhenValid ==
  pool.cacheValid
    => pool.availableKeysCache
         = SelectSeq(keys, LAMBDA k : k \notin pool.failedKeys
                                       /\ ~CoolingAt(pool.coolingKeys, k, now))

\* The cached view, when valid, as the code builds it: without the failed
\* keys and without every key that has a cooling entry, expired or not.
CacheWhenValidByEntry ==
  pool.cacheValid
    => pool.availableKeysCache
         = SelectSeq(keys, LAMBDA k : k \notin pool.failedKeys
                                       /\ ~MapHas(pool.coolingKeys, k))


\* C27: GET /v1/status reports "healthy" if and only if, at the moment the
\* stats snapshot is computed, at least one configured key is Available
\* (neither failed nor cooling with a cooldown that has not expired).
SomeAvailable == \E k \in KeySet : SelectableAt(pool.failedKeys, pool.coolingKeys, k, now)

C27_HealthyIffAvailable ==
  lastOut.what = "status" => (lastOut.health = "healthy" <=> SomeAvailable)

\* The two directions apart.
HealthyOnlyIfAvailable ==
  lastOut.what = "status" /\ lastOut.health = "healthy" => SomeAvailable

AvailableOnlyIfHealthy ==
  lastOut.what = "status" /\ SomeAvailable => lastOut.health = "healthy"

\* The report is right whenever no key is failed and cooling at once and no
\* cooling entry has an expiry that is not a number.
C27_HealthyIffAvailablePlain ==
  /\ lastOut.what = "status"
  /\ \A i \in DOMAIN pool.coolingKeys :
        ~IsNaN(pool.coolingKeys[i].until) /\ pool.coolingKeys[i].key \notin pool.failedKeys
  => (lastOut.health = "healthy" <=> SomeAvailable)

\* A degraded report.
DegradedReported == lastOut.what = "status" /\ lastOut.health = "degraded"


\* C22: a request that is not OPTIONS and carries no bearer token is answered
\* 401, one whose token is not a valid token is answered 403, and in both
\* cases the step selects no key, makes no upstream call and leaves the
\* pool as it was; an OPTIONS request is answered with the CORS headers
\* whatever its Authorization header.
CorsHeaders ==
  {"Access-Control-Allow-Origin", "Access-Control-Allow-Methods", "Access-Control-Allow-Headers"}
NoBearerToken(h) == Len(h) < 2
BadToken(h) == Len(h) >= 2 /\ h[2] \notin validTokens

OptionsAnswered ==
  /\ lastOut.what = "auth"
  /\ lastOut.method = "OPTIONS"
  /\ lastOut.auth = <<>>
  /\ CorsHeaders \subseteq lastOut.headers

\* A request without token is answered 401.
MissingTokenAnswered ==
  /\ lastOut.what = "auth"
  /\ lastOut.method = "GET"
  /\ lastOut.auth = <<>>
  /\ lastOut.answer.status = 401


\* ---------------------------------------------------------- translation
RoleInit == createOptimizedChunk(<<>>, TRUE, FALSE, "")
ContentFrame(text) == createOptimizedChunk(text, FALSE, FALSE, "")
ClosingFrame(reason) == createOptimizedChunk(<<>>, FALSE, TRUE, reason)

\* The finish_reason the client is to see for an upstream finishReason.
ExpectedReason(r) ==
  CASE r = "STOP" -> "stop"
    [] r = "MAX_TOKENS" -> "length"
    [] r \in {"SAFETY", "RECITATION"} -> "content_filter"
    [] OTHER -> r

\* A frame that carries a text and no terminal reason, and one that carries
\* a terminal reason and no text.
TextFrame(f) == f.kind = "json" /\ f.content = "parts" /\ f.text # <<>> /\ f.finishReason = ""
TerminalFrame(f) == f.kind = "json" /\ f.text = <<>> /\ f.finishReason # ""

\* The concatenation of the content fields of the client frames from i on.
RECURSIVE ConcatContent(_, _)
ConcatContent(out, i) ==
  IF i > Len(out) THEN <<>>
  ELSE (IF out[i].sse = "chunk" /\ out[i].delta.has THEN out[i].delta.content ELSE <<>>)
         \o ConcatContent(out, i + 1)

\* The concatenation of the frame sequences e[1], e[2], ...
RECURSIVE Flat(_, _)
Flat(e, i) == IF i > Len(e) THEN <<>> ELSE e[i] \o Flat(e, i + 1)

\* A stream of k text frames and one terminal frame, each followed by the
\* separator, has been translated to its end.
TextsThenTerminal ==
  /\ stream.phase = "closed"
  /\ stream.terminated
  /\ stream.frames # <<>>
  /\ \A i \in 1..(Len(stream.frames) - 1) : TextFrame(stream.frames[i])
  /\ TerminalFrame(stream.frames[Len(stream.frames)])

\* C23: for k text frames t1..tk followed by one terminal frame, each ended
\* by the separator, the client stream is the role-init frame, the k content
\* frames t1..tk in order, the closing frame with the mapped finish_reason
\* and the sentinel, and its content fields concatenate to t1...tk, however
\* the bytes were cut into reads.
C23_StreamExact ==
  TextsThenTerminal
    => LET fs == stream.frames
           k == Len(fs) - 1
       IN /\ stream.out = <<RoleInit>> \o [i \in 1..k |-> ContentFrame(fs[i].text)]
                            \o <<ClosingFrame(ExpectedReason(fs[k + 1].finishReason)), DONE>>
          /\ ConcatContent(stream.out, 1) = WholeText(fs, 1)

\* Hello, " world", STOP: four frames, finish_reason stop, then the sentinel.
C23_Witness ==
  /\ TextsThenTerminal
  /\ stream.frames = <<Cand("parts", <<"Hello">>, ""), Cand("parts", <<" world">>, ""),
                       Cand("absent", <<>>, "STOP")>>
  /\ Len(stream.out) = 5
  /\ stream.out[4].finish_reason = "stop"
  /\ stream.out[5] = DONE
  /\ ConcatContent(stream.out, 1) = <<"Hello", " world">>

\* A frame whose text is the empty string gets no content frame.
EmptyTextNoFrame ==
  (stream.phase = "closed" /\ stream.frames = <<Cand("parts", <<>>, "")>> /\ stream.terminated)
    => stream.out = <<RoleInit, DONE>>

\* The client stream of a closed stream does not depend on how the bytes
\* were cut into reads.
StreamedWhole(fs, t) ==
  flush(transform([NoStream EXCEPT !.phase = "open", !.frames = fs, !.terminated = t],
                  StreamBytes(fs, 1, t))).out

ChunkingIrrelevant ==
  stream.phase = "closed" => stream.out = StreamedWhole(stream.frames, stream.terminated)

\* C24: a client stream that has ended, because the upstream closed or
\* because the upstream failed, ends with the sentinel, which occurs once.
Ended == stream.phase \in {"closed", "errored"}
SentinelOnceAndLast ==
  /\ stream.out # <<>>
  /\ stream.out[Len(stream.out)] = DONE
  /\ Cardinality({i \in DOMAIN stream.out : stream.out[i] = DONE}) = 1

C24_SentinelAlways == Ended => SentinelOnceAndLast

\* The sentinel is there whenever the upstream closed.
SentinelWhenClosed == stream.phase = "closed" => SentinelOnceAndLast

\* C25: when a frame after the first fails to parse, the stream goes on: the
\* client gets an empty-content frame for it, the usual frames for every
\* well-formed frame, and the sentinel at the end.
Usual(f) ==
  (IF f.content = "parts" /\ f.text # <<>> THEN <<ContentFrame(f.text)>> ELSE <<>>)
    \o (IF f.finishReason # "" THEN <<ClosingFrame(ExpectedReason(f.finishReason))>> ELSE <<>>)

MalformedMidStream ==
  /\ stream.phase = "closed"
  /\ stream.terminated
  /\ Len(stream.frames) >= 2
  /\ stream.frames[1].kind = "json"
  /\ \A i \in DOMAIN stream.frames : stream.frames[i].kind \in {"json", "malformed"}
  /\ \E i \in 2..Len(stream.frames) : stream.frames[i].kind = "malformed"

C25_MalformedGoesOn ==
  MalformedMidStream
    => /\ stream.out =
            <<RoleInit>>
              \o Flat([i \in DOMAIN stream.frames |->
                         IF stream.frames[i].kind = "malformed" THEN <<ContentFrame(<<>>)>>
                         ELSE Usual(stream.frames[i])], 1)
              \o <<DONE>>
       /\ SentinelOnceAndLast

C25_Witness ==
  /\ MalformedMidStream
  /\ stream.frames = <<Cand("parts", <<"Hello">>, ""), Malformed, Cand("parts", <<" world">>, "")>>
  /\ stream.out = <<RoleInit, ContentFrame(<<"Hello">>), ContentFrame(<<>>),
                    ContentFrame(<<" world">>), DONE>>

\* C26: for the same upstream content, candidates with their texts and the
\* finishReason (if any) in the last frame, the non-streamed completion has
\* the content that the streamed content fields concatenate to and the
\* finish_reason of the streamed closing frame.
ClosingReasons(out) ==
  {out[i].finish_reason : i \in {j \in DOMAIN out : out[j].sse = "chunk" /\ out[j].finish_reason # ""}}

SameContent ==
  /\ stream.phase = "json"
  /\ stream.terminated
  /\ \A i \in 1..(Len(stream.frames) - 1) : stream.frames[i].finishReason = ""

C26_StreamEqualsJson ==
  SameContent
    => LET out == StreamedWhole(stream.frames, TRUE)
       IN /\ stream.json.status = 200
          /\ ConcatContent(out, 1) = stream.json.content
          /\ ClosingReasons(out) = {stream.json.finish_reason} \ {""}

\* The two paths agree whenever the content has parts or no content at all.
StreamEqualsJsonWithParts ==
  (SameContent /\ Whole(stream.frames).content # "noparts")
    => LET out == StreamedWhole(stream.frames, TRUE)
       IN /\ stream.json.status = 200
          /\ ConcatContent(out, 1) = stream.json.content
          /\ ClosingReasons(out) = {stream.json.finish_reason} \ {""}

\* C28: a message list with a system message and no other message is
\* translated to exactly one turn, of the user role, whose only part is the
\* text " "; when there is another message no turn is added to the
\* translated ones.
Turns(ms) == {i \in DOMAIN ms : ms[i].role # "system"}
OnlySystem(ms) == ms # <<>> /\ Turns(ms) = {}

C28_PlaceholderUserTurn ==
  translation.done
    => LET ms == translation.messages
           r == translation.result
       IN /\ OnlySystem(ms) => r.contents = <<[role |-> "user", parts |-> <<[text |-> " "]>>]>>
          /\ Turns(ms) # {} => /\ Len(r.contents) = Cardinality(Turns(ms))
                               /\ \A i \in DOMAIN r.contents : r.contents[i].parts[1].text # " "

\* What the code does: the turn it adds has the model role.
PlaceholderModelTurn ==
  translation.done
    => LET ms == translation.messages
           r == translation.result
       IN /\ OnlySystem(ms) => r.contents = <<[role |-> "model", parts |-> <<[text |-> " "]>>]>>
          /\ Turns(ms) # {} => /\ Len(r.contents) = Cardinality(Turns(ms))
                               /\ \A i \in DOMAIN r.contents : r.contents[i].parts[1].text # " "


\* ------------------------------------------------------------ C31..C40
\* C31: when getNextKey returns a key through the soonest-cooling fallback,
\* the failed set is the one it started from, and the cooling map is the one
\* it started from without its expired entries: the returned key's entry and
\* every other unexpired entry are kept with their expiry.
C31_FallbackIsPeek ==
  lastSel.path = "cooling"
    => /\ pool.failedKeys = lastSel.preFailed
       /\ pool.coolingKeys = SelectSeq(lastSel.preCooling, LAMBDA e : ~Ge(now, e.until))
       /\ MapHas(pool.coolingKeys, lastSel.key)
       /\ MapGet(pool.coolingKeys, lastSel.key) = MapGet(lastSel.preCooling, lastSel.key)

\* Both keys are cooling and the fallback hands one of them out.
C31_Witness ==
  /\ lastSel.path = "cooling"
  /\ Len(keys) = 2
  /\ Len(pool.coolingKeys) = 2
  /\ pool.failedKeys = {}
  /\ MapHas(pool.coolingKeys, lastSel.key)


\* The step just taken ended in resetAllKeys.
ResetDone == lastSel.path = "reset"

\* The step reported a 401/403, or a failure that cools the key (429, 5xx).
ReportsFailed(out) == out.what = "response" /\ out.status \in {401, 403}
ReportsCooling(out) == out.what = "response" /\ (out.status = 429 \/ out.status >= 500)

\* C32 as stated: under any interleaving of requests, a key reported 401/403
\* is in the failed set from then on until a full reset, and a key reported
\* with a cooling failure has a cooling entry from then on until a full
\* reset or the entry's expiry.
C32_NoLostUpdate ==
  [][/\ ReportsFailed(lastOut') => (lastOut'.key \in pool'.failedKeys \/ ResetDone')
     /\ ReportsCooling(lastOut') => (MapHas(pool'.coolingKeys, lastOut'.key) \/ ResetDone')
     /\ \A a \in KeySet, b \in KeySet :
          (a # b /\ a \in pool.failedKeys /\ MapHas(pool.coolingKeys, b))
            => \/ a \in pool'.failedKeys /\ MapHas(pool'.coolingKeys, b)
               \/ ResetDone'
               \/ Ge(now, MapGet(pool.coolingKeys, b))]_vars

\* C32 amended: the cooling entry of a key also goes when the key itself is
\* reported 401/403 and becomes failed.
C32_NoLostUpdateButFailed ==
  [][/\ ReportsFailed(lastOut') => (lastOut'.key \in pool'.failedKeys \/ ResetDone')
     /\ ReportsCooling(lastOut') => (MapHas(pool'.coolingKeys, lastOut'.key) \/ ResetDone')
     /\ \A k \in KeySet :
          /\ k \in pool.failedKeys => (k \in pool'.failedKeys \/ ResetDone')
          /\ MapHas(pool.coolingKeys, k)
               => \/ MapHas(pool'.coolingKeys, k)
                  \/ ResetDone'
                  \/ Ge(now, MapGet(pool.coolingKeys, k))
                  \/ (ReportsFailed(lastOut') /\ lastOut'.key = k /\ k \in pool'.failedKeys)]_vars

\* Request 1 has reported a 401 for one key, request 2 then reports a 429 for
\* the other, and the pool holds both marks.
C32_Witness ==
  /\ Cardinality(Reqs) = 2
  /\ lastOut.what = "response"
  /\ lastOut.req = 2
  /\ lastOut.status = 429
  /\ 401 \in reqs[1].seen
  /\ pool.failedKeys # {}
  /\ lastOut.key \notin pool.failedKeys
  /\ MapHas(pool.coolingKeys, lastOut.key)


\* C33: under round-robin, when time keeps advancing and getNextKey keeps
\* being called and no key is marked again, every key that is cooling (with
\* an expiry that is a time) is eventually handed out by getNextKey as a key
\* of the selectable view, its cooling entry gone.
Recovered(k) ==
  /\ lastSel.key = k
  /\ lastSel.path \in {"strategy", "recovered"}
  /\ ~MapHas(pool.coolingKeys, k)

C33_CoolingRecovers ==
  \A k \in 1..MaxKeys :
    (/\ k \in KeySet
     /\ k \notin pool.failedKeys
     /\ MapHas(pool.coolingKeys, k)
     /\ ~IsNaN(MapGet(pool.coolingKeys, k)))
      ~> Recovered(k)

\* The call that removes a key's expired entry hands that key out.
C33_Witness ==
  \E k \in KeySet :
    /\ Recovered(k)
    /\ MapHas(lastSel.preCooling, k)
    /\ Len(keys) = 2
    /\ now > StartTime + COOL_RATELIMIT_MIN * MS_PER_MINUTE


\* C34: after every read that transform has processed, the buffer holds at
\* most MAX_BUFFER_SIZE of the data read so far, and what it holds is the
\* newest of it: the end of the bytes received.
Received ==
  LET all == StreamBytes(stream.frames, 1, stream.terminated)
  IN SubSeq(all, 1, Len(all) - Len(stream.rest))

IsSuffix(a, b) == Len(a) <= Len(b) /\ a = SubSeq(b, Len(b) - Len(a) + 1, Len(b))

C34_BufferBounded ==
  stream.phase = "open"
    => /\ Len(stream.buffer) <= MAX_BUFFER_SIZE
       /\ IsSuffix(stream.buffer, Received)

\* A read has pushed the buffer over the limit in the middle of a frame:
\* the newest half of the limit is what is left.
C34_Witness ==
  /\ stream.phase = "open"
  /\ Len(Received) > MAX_BUFFER_SIZE
  /\ Len(stream.buffer) = MAX_BUFFER_SIZE \div 2
  /\ stream.buffer[1].h > 1
  /\ stream.rest # <<>>


\* C35: in a client stream with at least one frame other than the sentinel,
\* the role-establishing frame is the first frame and occurs once, whatever
\* the other frames are (content, empty content for a malformed frame,
\* closing, or the content frame of flush).
ClientFrames == {i \in DOMAIN stream.out : stream.out[i].sse = "chunk"}

C35_RoleInitOnceAndFirst ==
  ClientFrames # {}
    => /\ stream.out[1] = RoleInit
       /\ Cardinality({i \in ClientFrames : stream.out[i] = RoleInit}) = 1

\* The same when every frame is a well-formed candidate followed by the
\* separator.
RoleInitOnceAndFirstWellFormed ==
  (/\ ClientFrames # {}
   /\ stream.terminated
   /\ \A i \in DOMAIN stream.frames : stream.frames[i].kind # "malformed")
    => /\ stream.out[1] = RoleInit
       /\ Cardinality({i \in ClientFrames : stream.out[i] = RoleInit}) = 1

\* C36: the client frames do not depend on how the upstream bytes are cut
\* into reads: after any reads, the frames emitted, the buffer and
\* isFirstChunk are those of one read of all the bytes received, and the
\* closed stream is the one that one read of the whole body gives.
OneRead == transform([NoStream EXCEPT !.phase = "open", !.frames = stream.frames,
                                     !.terminated = stream.terminated], Received)

C36_ChunkingIndependent ==
  /\ stream.phase = "open"
       => /\ stream.out = OneRead.out
          /\ stream.buffer = OneRead.buffer
          /\ stream.isFirstChunk = OneRead.isFirstChunk
  /\ stream.phase = "closed" => stream.out = flush(OneRead).out

\* A read has ended between the two line breaks of a separator, after a
\* read that ended inside a frame; the frame before has been translated.
C36_Witness ==
  /\ stream.phase = "open"
  /\ Len(stream.frames) = 3
  /\ stream.out = <<RoleInit, ContentFrame(<<"Hello">>)>>
  /\ stream.buffer = FrameBytes(stream.frames, 2) \o <<NL>>
  /\ stream.rest # <<>>

\* C37: when the upstream closes with its last frame in the buffer, no
\* separator after it, the client stream ends with that frame's usual
\* frames (content if it has text, closing if it has a finishReason) and
\* then the sentinel.
LastFrame == stream.frames[Len(stream.frames)]

IsTail(a, b) == Len(a) <= Len(b) /\ a = SubSeq(b, Len(b) - Len(a) + 1, Len(b))

LastFrameUnterminated ==
  /\ stream.phase = "closed"
  /\ ~stream.terminated
  /\ stream.frames # <<>>
  /\ LastFrame.kind = "json"

C37_FlushTranslatesLastFrame ==
  LastFrameUnterminated => IsTail(Usual(LastFrame) \o <<DONE>>, stream.out)

\* The same for a last frame without finishReason.
FlushTranslatesLastText ==
  (LastFrameUnterminated /\ LastFrame.finishReason = "")
    => IsTail(Usual(LastFrame) \o <<DONE>>, stream.out)


\* C38: in every reachable pool state the statistics getStats computes
\* afresh are consistent: totalKeys is the number of configured keys, the
\* three counts are not negative and add up to totalKeys, and no key is
\* counted as failed and as cooling.
FreshStats == getStats([pool EXCEPT !.statsCache = NullStats], now).stats

CountedFailed(k) == k \in pool.failedKeys
CountedCooling(k) == MapHas(pool.coolingKeys, k) /\ Lt(now, MapGet(pool.coolingKeys, k))

C38_StatsConsistent ==
  /\ FreshStats.totalKeys = Len(keys)
  /\ FreshStats.availableKeys >= 0
  /\ FreshStats.failedKeys >= 0
  /\ FreshStats.coolingKeys >= 0
  /\ FreshStats.availableKeys + FreshStats.failedKeys + FreshStats.coolingKeys = FreshStats.totalKeys
  /\ \A k \in KeySet : ~(CountedFailed(k) /\ CountedCooling(k))

\* The counts alone, without the requirement on the categories.
StatsNotNegative ==
  /\ FreshStats.availableKeys >= 0
  /\ FreshStats.failedKeys >= 0
  /\ FreshStats.coolingKeys >= 0


\* C39: every request that has started returns a response, after at most
\* its budget of upstream calls, whatever the pool's state and the other
\* request's steps, and with no cooldown expiring.
InFlight(r) == reqs[r].pc \in {"transform", "fetch"}

Returned(r) ==
  /\ reqs[r].pc = "done"
  /\ reqs[r].resp # NoResponse
  /\ reqs[r].calls <= MathMin(Budget(reqs[r].kind), Len(keys))

C39_Terminates == \A r \in 1..NumReqs : InFlight(r) ~> Returned(r)

\* A request returns the error of its last attempt while the clock has not
\* moved and every key it could get is failed or cooling.
C39_Witness ==
  /\ Returned(2)
  /\ reqs[2].resp.status = 500
  /\ reqs[2].calls = 2
  /\ Len(keys) = 2
  /\ now = StartTime
  /\ ~SomeAvailable


\* C40: every error response the worker returns, from a handler or from the
\* fetch handler itself, has a body whose type is one of the three error
\* types and whose code is the HTTP status of the response.
ErrorTypes == {"invalid_request_error", "rate_limit_error", "server_error"}

IsError(resp) == resp.status >= 400

ErrorShape(resp) == resp.body.type \in ErrorTypes /\ resp.body.code = resp.status

C40_ErrorBodyCodeIsStatus ==
  /\ \A r \in Reqs : (reqs[r].pc = "done" /\ IsError(reqs[r].resp)) => ErrorShape(reqs[r].resp)
  /\ (lastOut.what \in {"auth", "route"} /\ IsError(lastOut.answer)) => ErrorShape(lastOut.answer)

\* The type is always one of the three.
ErrorTypeKnown ==
  /\ \A r \in Reqs : (reqs[r].pc = "done" /\ IsError(reqs[r].resp))
                        => reqs[r].resp.body.type \in ErrorTypes
  /\ (lastOut.what \in {"auth", "route"} /\ IsError(lastOut.answer))
        => lastOut.answer.body.type \in ErrorTypes

\* The code is the status whenever the status has an entry in ERROR_TEMPLATES.
Templated == {400, 401, 403, 404, 405, 429, 500}

ErrorCodeIsStatusWhenTemplated ==
  /\ \A r \in Reqs : (reqs[r].pc = "done" /\ reqs[r].resp.status \in Templated)
                        => ErrorShape(reqs[r].resp)
  /\ (lastOut.what \in {"auth", "route"} /\ lastOut.answer.status \in Templated)
        => ErrorShape(lastOut.answer)

====
